---- MODULE Spec2Model ----
(***************************************************************************)
(* django-ninja-crud: view declarations (ninja_crud/views/abstract.py,     *)
(* retrieve.py), the validating metaclass and the ViewSet registrar        *)
(* (viewset.py), and the router the views register their routes on.        *)
(*                                                                         *)
(* Python values are encoded as follows.  An optional argument is a        *)
(* sequence of length at most one (<<>> is "not passed" / None, <<x>> is   *)
(* the value x).  A dict of keyword arguments is a set of <<key, value>>   *)
(* pairs.  A view object is its index in the heap `views`.  A function     *)
(* object is its bare closure (`core`) and the wrappers applied around it, *)
(* innermost first (`layers`).                                             *)
(***************************************************************************)
EXTENDS Integers, Sequences, FiniteSets, TLC

\* ------------------------------------------------------------ bounds
MaxViews == 1
MaxClasses == 1
MaxRoutes == 2

\* ------------------------------------------------------------ universe
None == "None"
Absent == "<absent>"

\* tests/test_app models imported by src/tests/views/test_delete.py
ModelSubclasses == {"Collection", "Item"}
\* a class that is not a Model, and an object that is not a class at all
NonModelType == "int"
NotAType == "'Item'"
Types == ModelSubclasses \cup {NonModelType}

Routers == {"r1", "r2"}
Schemas == {"ItemOut"}
Accessors == {"visible_to"}
DecoratorLists == {<<>>, <<"d1", "d2">>}
KwargDicts == {{}, {<<"exclude_unset", TRUE>>}}
ClassNames == {"ItemViewSet", "ModelViewSet"}
Pks == {1, 2}
\* the rows of a model's table when a request arrives
Tables == {{}, {1, 2}}
\* the router a single view is exercised against
ViewRouters == {"r1"}

Opt(S) == {<<>>} \cup {<<x>> : x \in S}

\* ------------------------------------------------------------ state
VARIABLES
    views,      \* heap of view objects, in order of construction
    classes,    \* the ModelViewSet subclasses that exist, in order of creation
    routes,     \* per router: the calls of its verb methods, in order
    last        \* the last operation: its arguments, the state it started
                \* from, what it returned or raised

vars == <<views, classes, routes, last>>

NoError == "none"

\* ------------------------------------------------------------ utils
\* ninja_crud/views/utils.py, by its documented behaviour: name casing,
\* decorator composition, primary-key type lookup

UpperToLower ==
    [c \in {"C", "I"} |-> IF c = "C" THEN "c" ELSE "i"]

RECURSIVE SnakeFrom(_, _)
SnakeFrom(name, i) ==
    IF i > Len(name) THEN <<>>
    ELSE LET c == name[i]
             up == c \in DOMAIN UpperToLower
             low == IF up THEN UpperToLower[c] ELSE c
         IN  (IF up /\ i > 1 THEN <<"_", low>> ELSE <<low>>)
                 \o SnakeFrom(name, i + 1)

to_snake_case(name) == SnakeFrom(name, 1)

RECURSIVE ApplyInOrder(_, _, _)
ApplyInOrder(decorators, i, func) ==
    IF i > Len(decorators) THEN func
    ELSE ApplyInOrder(decorators, i + 1,
                      [func EXCEPT !.layers = Append(@, decorators[i])])

merge_decorators(decorators, func) == ApplyInOrder(decorators, 1, func)

HasPrimaryKey(model_class) == model_class \in ModelSubclasses

get_id_type(model_class) ==
    IF model_class = "Item" THEN "UUID" ELSE "int"

\* model_class.__name__
ClassName(model_class) ==
    CASE model_class = "Item" -> <<"I", "t", "e", "m">>
      [] model_class = "Collection" ->
            <<"C", "o", "l", "l", "e", "c", "t", "i", "o", "n">>
      [] OTHER -> <<"i", "n", "t">>

\* ------------------------------------------------------------ views

AbstractModelView_init(decorators) ==
    IF decorators = <<>> THEN <<>> ELSE decorators[1]

\* RetrieveModelView(output_schema, queryset_getter, decorators, **extra):
\* the constructor takes no router_kwargs, so passing one raises TypeError.
RetrieveModelView_init(output_schema, queryset_getter, decorators, router_kwargs) ==
    IF router_kwargs # <<>>
    THEN [err |-> "TypeError", view |-> <<>>]
    ELSE [err |-> NoError,
          view |-> <<[kind |-> "Retrieve",
                      output_schema |-> output_schema,
                      queryset_getter |-> queryset_getter,
                      decorators |-> AbstractModelView_init(decorators),
                      router_kwargs |-> {}]>>]

\* DeleteModelView(decorators, router_kwargs)
DeleteModelView_init(decorators, router_kwargs) ==
    [err |-> NoError,
     view |-> <<[kind |-> "Delete",
                 output_schema |-> None,
                 queryset_getter |-> None,
                 decorators |-> AbstractModelView_init(decorators),
                 router_kwargs |-> IF router_kwargs = <<>> THEN {}
                                   ELSE router_kwargs[1]]>>]

get_path(view) == "/{id}"

NoFunc ==
    [core |-> [name |-> "", view |-> 0, model |-> "", id_type |-> ""],
     layers |-> <<>>]

BareHandler(name, v, model_class) ==
    [core |-> [name |-> name, view |-> v, model |-> model_class,
               id_type |-> get_id_type(model_class)],
     layers |-> <<>>]

RetrieveHandler_Bare(v, model_class) ==
    BareHandler("retrieve_model", v, model_class)

\* The function the router decorator receives: the handler closure with the
\* view's decorators merged around it.
RetrieveHandler(v, model_class) ==
    merge_decorators(views[v].decorators,
                     BareHandler("retrieve_model", v, model_class))

\* The keyword arguments of the router.get(...) call in register_route.
RetrieveRouteCall_Post(v, model_class) ==
    [verb |-> "POST",
     path |-> get_path(views[v]),
     response |-> views[v].output_schema,
     operation_id |-> [prefix |-> "retrieve_",
                       name |-> to_snake_case(ClassName(model_class))],
     summary |-> [prefix |-> "Retrieve ", name |-> ClassName(model_class)],
     kwargs |-> {},
     applied |-> FALSE,
     func |-> NoFunc]

RetrieveRouteCall(v, model_class) ==
    [verb |-> "GET",
     path |-> get_path(views[v]),
     response |-> views[v].output_schema,
     operation_id |-> [prefix |-> "retrieve_",
                       name |-> to_snake_case(ClassName(model_class))],
     summary |-> [prefix |-> "Retrieve ", name |-> ClassName(model_class)],
     kwargs |-> {},
     applied |-> FALSE,
     func |-> NoFunc]

\* view.register_route(router, model_class) for a RetrieveModelView, on the
\* router's call log.  The decorator expression router.get(...) is evaluated
\* first (its arguments read model_class.__name__), then the def (its
\* annotation calls get_id_type), then the two decorators bottom-up: an
\* entry is `applied` once the router's decorator has received the function.
RetrieveRegisterRoute(v, log, model_class) ==
    IF model_class \notin Types
    THEN [log |-> log, err |-> "AttributeError"]
    ELSE LET call == RetrieveRouteCall(v, model_class)
         IN  IF ~HasPrimaryKey(model_class)
             THEN [log |-> Append(log, call), err |-> "AttributeError"]
             ELSE [log |-> Append(log, [call EXCEPT
                                          !.applied = TRUE,
                                          !.func = RetrieveHandler(v, model_class)]),
                   err |-> NoError]

DeleteRegisterRoute(v, log, model_class) ==
    IF model_class \notin Types
    THEN [log |-> log, err |-> "AttributeError"]
    ELSE LET call == [verb |-> "DELETE",
                      path |-> get_path(views[v]),
                      response |-> "204",
                      operation_id |-> [prefix |-> "delete_",
                                        name |-> to_snake_case(ClassName(model_class))],
                      summary |-> [prefix |-> "Delete ",
                                   name |-> ClassName(model_class)],
                      kwargs |-> views[v].router_kwargs,
                      applied |-> FALSE,
                      func |-> NoFunc]
         IN  IF ~HasPrimaryKey(model_class)
             THEN [log |-> Append(log, call), err |-> "AttributeError"]
             ELSE [log |-> Append(log, [call EXCEPT
                                          !.applied = TRUE,
                                          !.func = merge_decorators(
                                              views[v].decorators,
                                              BareHandler("delete_model", v, model_class))]),
                   err |-> NoError]

\* dynamic dispatch of view.register_route
register_route(v, log, model_class) ==
    IF views[v].kind = "Retrieve"
    THEN RetrieveRegisterRoute(v, log, model_class)
    ELSE DeleteRegisterRoute(v, log, model_class)


\* ---- django.db.models: managers and querysets (external)
HiddenPks == {2}

\* model_class.objects.get_queryset(): every row of the model's table
DefaultQuerySet(model_class, rows) ==
    [source |-> "objects", model |-> model_class, arg |-> <<>>, rows |-> rows]

\* what the accessor named `getter` returns for argument `arg`: a filtered
\* queryset (the rows this accessor hides are left out)
AccessorQuerySet(getter, arg, rows) ==
    [source |-> getter, model |-> None, arg |-> arg, rows |-> rows \ HiddenPks]

\* queryset.get(pk=id)
QuerySetGet(queryset, id) ==
    IF id \in queryset.rows
    THEN [err |-> NoError,
          instance |-> <<[pk |-> id, source |-> queryset.source]>>]
    ELSE [err |-> "DoesNotExist", instance |-> <<>>]

get_queryset_NeverAccessor(v, model_class, id, rows) ==
    [queryset |-> DefaultQuerySet(model_class, rows),
     accessor_calls |-> <<>>,
     manager_calls |-> <<model_class>>]

\* RetrieveModelView.get_queryset(model_class, id); `id` is optional.
\* Returns the queryset and the calls made to get it.
get_queryset(v, model_class, id, rows) ==
    IF views[v].queryset_getter = None
    THEN [queryset |-> DefaultQuerySet(model_class, rows),
          accessor_calls |-> <<>>,
          manager_calls |-> <<model_class>>]
    ELSE [queryset |-> AccessorQuerySet(views[v].queryset_getter, id, rows),
          accessor_calls |-> <<id>>,
          manager_calls |-> <<>>]

retrieve_model_NotFoundCaught(v, model_class, id, rows) ==
    LET q == get_queryset(v, model_class, <<id>>, rows)
        got == QuerySetGet(q.queryset, id)
    IN  [err |-> NoError,
         result |-> IF got.err = NoError
                    THEN <<[status |-> 200, instance |-> got.instance[1]]>>
                    ELSE <<[status |-> 404, instance |-> [pk |-> id, source |-> None]]>>,
         accessor_calls |-> q.accessor_calls,
         manager_calls |-> q.manager_calls]

\* retrieve_model(request, id): the body of the handler closure
retrieve_model(v, model_class, id, rows) ==
    LET q == get_queryset(v, model_class, <<id>>, rows)
        got == QuerySetGet(q.queryset, id)
    IN  [err |-> got.err,
         result |-> IF got.err = NoError
                    THEN <<[status |-> 200, instance |-> got.instance[1]]>>
                    ELSE <<>>,
         accessor_calls |-> q.accessor_calls,
         manager_calls |-> q.manager_calls]

Reverse(s) == [i \in 1..Len(s) |-> s[Len(s) + 1 - i]]

\* ------------------------------------------------------------ viewset
ViewAttrNames == {"detail", "remove"}
\* dir(cls) lists attribute names in alphabetical order
AttrOrder == <<"detail", "remove">>

AbsentAttr == [tag |-> "absent", ref |-> 0]
OtherAttr == [tag |-> "other", ref |-> 0]
ViewAttr(v) == [tag |-> "view", ref |-> v]

\* getattr(cls, "model_class") along the bases; class 0 is ModelViewSet
\* itself, which only annotates model_class
RECURSIVE LookupModelClass(_, _)
LookupModelClass(cs, c) ==
    IF c = 0 THEN Absent
    ELSE IF cs[c].model_class # Absent THEN cs[c].model_class
    ELSE LookupModelClass(cs, cs[c].base)

\* getattr(cls, attr_name) along the bases
RECURSIVE LookupAttr(_, _, _)
LookupAttr(cs, c, a) ==
    IF c = 0 THEN AbsentAttr
    ELSE IF cs[c].attrs[a] # AbsentAttr THEN cs[c].attrs[a]
    ELSE LookupAttr(cs, cs[c].base, a)

\* ModelViewSetMeta.validate_model_class(new_cls), new_cls being cs[c]
validate_model_class(cs, c) ==
    LET cls_attr_value == LookupModelClass(cs, c)
    IN  IF cls_attr_value = Absent
        THEN [err |-> "ValueError", msg |-> "must be set"]
        ELSE IF cls_attr_value \notin Types \/ cls_attr_value \notin ModelSubclasses
        THEN [err |-> "ValueError", msg |-> "must be a subclass of Model"]
        ELSE [err |-> NoError, msg |-> ""]

\* ModelViewSetMeta.__new__(mcs, name, bases, attrs)
ModelViewSetMeta_new(name, base, model_class, attrs) ==
    LET new_cls == [name |-> name, base |-> base, model_class |-> model_class,
                    attrs |-> attrs, validations |-> 0]
        cs == Append(classes, new_cls)
        checked == validate_model_class(cs, Len(cs))
    IN  IF name # "ModelViewSet"
        THEN IF checked.err # NoError
             THEN [err |-> checked.err, msg |-> checked.msg, cls |-> <<>>]
             ELSE [err |-> NoError, msg |-> "",
                   cls |-> <<[new_cls EXCEPT !.validations = 1]>>]
        ELSE [err |-> NoError, msg |-> "", cls |-> <<new_cls>>]

\* the loop of ModelViewSet.register_routes from position i of dir(cls);
\* `invoked` lists the register_route calls made, with their model_class
RECURSIVE RegisterFrom(_, _, _, _)
RegisterFrom(c, i, log, invoked) ==
    IF i > Len(AttrOrder)
    THEN [log |-> log, err |-> NoError, invoked |-> invoked]
    ELSE LET attr_value == LookupAttr(classes, c, AttrOrder[i])
         IN  IF attr_value.tag # "view"
             THEN RegisterFrom(c, i + 1, log, invoked)
             ELSE IF LookupModelClass(classes, c) = Absent
             THEN [log |-> log, err |-> "AttributeError", invoked |-> invoked]
             ELSE LET m == LookupModelClass(classes, c)
                      done == register_route(attr_value.ref, log, m)
                      now == Append(invoked, [view |-> attr_value.ref, model |-> m])
                  IN  IF done.err # NoError
                      THEN [log |-> done.log, err |-> done.err, invoked |-> now]
                      ELSE RegisterFrom(c, i + 1, done.log, now)

register_routes(c, log) == RegisterFrom(c, 1, log, <<>>)

\* the class attributes of c whose value is a view instance, in dir() order
ViewAttrsOf(c) ==
    SelectSeq(AttrOrder, LAMBDA a : LookupAttr(classes, c, a).tag = "view")

RouterAfter_SharedTable(r, log) == [x \in Routers |-> log]

\* a verb method of router r appends to r's own route table
RouterAfter(r, log) == [routes EXCEPT ![r] = log]

\* ------------------------------------------------------------ initial state
Init ==
    /\ views = <<>>
    /\ classes = <<>>
    /\ routes = [r \in Routers |-> <<>>]
    /\ last = [op |-> "import", err |-> NoError]

\* ------------------------------------------------------------ view operations
NewRetrieveView(output_schema, queryset_getter, decorators, router_kwargs) ==
    LET made == RetrieveModelView_init(output_schema, queryset_getter,
                                       decorators, router_kwargs)
    IN  /\ Len(views) < MaxViews
        /\ views' = views \o made.view
        /\ last' = [op |-> "RetrieveModelView", err |-> made.err,
                    decorators |-> decorators,
                    router_kwargs |-> router_kwargs,
                    view |-> IF made.err = NoError THEN Len(views) + 1 ELSE 0]
        /\ UNCHANGED <<classes, routes>>

NewDeleteView(decorators, router_kwargs) ==
    LET made == DeleteModelView_init(decorators, router_kwargs)
    IN  /\ Len(views) < MaxViews
        /\ views' = views \o made.view
        /\ last' = [op |-> "DeleteModelView", err |-> made.err,
                    decorators |-> decorators,
                    router_kwargs |-> router_kwargs,
                    view |-> IF made.err = NoError THEN Len(views) + 1 ELSE 0]
        /\ UNCHANGED <<classes, routes>>

\* view.register_route(router, model_class), called directly
RegisterRoute(v, r, model_class) ==
    LET done == register_route(v, routes[r], model_class)
    IN  /\ Len(routes[r]) < MaxRoutes
        /\ routes' = RouterAfter(r, done.log)
        /\ last' = [op |-> "register_route", err |-> done.err,
                    view |-> v, router |-> r, model |-> model_class,
                    pre |-> routes]
        /\ UNCHANGED <<views, classes>>

\* view.get_queryset(model_class, id), called directly
GetQueryset(v, model_class, id, rows) ==
    LET got == get_queryset(v, model_class, id, rows)
    IN  /\ views[v].kind = "Retrieve"
        /\ last' = [op |-> "get_queryset", err |-> NoError,
                    view |-> v, model |-> model_class, id |-> id, rows |-> rows,
                    result |-> got.queryset,
                    accessor_calls |-> got.accessor_calls,
                    manager_calls |-> got.manager_calls]
        /\ UNCHANGED <<views, classes, routes>>

\* the framework dispatches GET <path> with identifier `id` to the function
\* registered as entry i of router r; `rows` are the primary keys in the
\* model's table at that time
Request(r, i, id, rows) ==
    LET func == routes[r][i].func
        ran == retrieve_model(func.core.view, func.core.model, id, rows)
    IN  /\ routes[r][i].applied
        /\ func.core.name = "retrieve_model"
        /\ last' = [op |-> "request", err |-> ran.err,
                    router |-> r, index |-> i, id |-> id, rows |-> rows,
                    entered |-> Reverse(func.layers),
                    result |-> ran.result,
                    accessor_calls |-> ran.accessor_calls,
                    manager_calls |-> ran.manager_calls]
        /\ UNCHANGED <<views, classes, routes>>

\* ------------------------------------------------------------ viewset operations
\* what a class body assigns to an attribute name: nothing, a value that is
\* no view, or a view constructed in the body
BodyValues == {"absent", "other", "view"}
ClassBodies ==
    {body \in [ViewAttrNames -> BodyValues] : body["remove"] # "other"}
\* what a class body assigns to model_class, if anything
BodyModelClasses == {Absent, "Item", NonModelType, NotAType}

\* the views a class body constructs, in the order of its assignments:
\*     detail = RetrieveModelView(output_schema=<schema>)
\*     remove = DeleteModelView()
BodyViews(body, schema) ==
    (IF body["detail"] = "view"
     THEN RetrieveModelView_init(schema, None, <<>>, <<>>).view ELSE <<>>)
    \o (IF body["remove"] = "view"
        THEN DeleteModelView_init(<<>>, <<>>).view ELSE <<>>)

\* the attrs dict of the class body, the views being at heap[first + 1 ...]
BodyAttrs(body, first) ==
    [a \in ViewAttrNames |->
        IF body[a] = "absent" THEN AbsentAttr
        ELSE IF body[a] = "other" THEN OtherAttr
        ELSE IF a = "detail" THEN ViewAttr(first + 1)
        ELSE ViewAttr(first + 1 + (IF body["detail"] = "view" THEN 1 ELSE 0))]

\* class <name>(<base>): model_class = ...; detail = ...; remove = ...
\* The body runs first and constructs its views; a class whose creation
\* raises leaves them unreferenced.
CreateClass(name, base, model_class, body, schema) ==
    LET made == ModelViewSetMeta_new(name, base, model_class,
                                     BodyAttrs(body, Len(views)))
    IN  /\ Len(classes) < MaxClasses
        /\ classes' = classes \o made.cls
        /\ views' = IF made.err = NoError
                    THEN views \o BodyViews(body, schema) ELSE views
        /\ last' = [op |-> "class", err |-> made.err, msg |-> made.msg,
                    cls |-> IF made.err = NoError THEN Len(classes) + 1 ELSE 0]
        /\ UNCHANGED routes

\* cls.register_routes(router); class 0 is ModelViewSet itself
RegisterRoutes(c, r) ==
    LET done == register_routes(c, routes[r])
    IN  /\ Len(routes[r]) + Len(ViewAttrsOf(c)) <= MaxRoutes
        /\ routes' = RouterAfter(r, done.log)
        /\ last' = [op |-> "register_routes", err |-> done.err,
                    cls |-> c, router |-> r, pre |-> routes,
                    invoked |-> done.invoked,
                    repeat |-> /\ last.op = "register_routes"
                               /\ last.cls = c
                               /\ last.router = r
                               /\ last.pre[r] = <<>>]
        /\ UNCHANGED <<views, classes>>

NextViews ==
    \/ \E s \in Schemas, g \in {None} \cup Accessors,
          d \in Opt(DecoratorLists), k \in Opt(KwargDicts) :
            NewRetrieveView(s, g, d, k)
    \/ \E d \in Opt(DecoratorLists), k \in Opt(KwargDicts) :
            NewDeleteView(d, k)
    \/ \E v \in 1..Len(views), r \in ViewRouters, m \in ModelSubclasses :
            RegisterRoute(v, r, m)
    \/ \E v \in 1..Len(views), m \in ModelSubclasses,
          id \in Opt(Pks), rows \in Tables :
            GetQueryset(v, m, id, rows)
    \/ \E r \in ViewRouters, id \in Pks, rows \in Tables :
          \E i \in 1..Len(routes[r]) :
            Request(r, i, id, rows)

NextViewSets ==
    \/ \E name \in ClassNames, base \in 0..Len(classes),
          m \in BodyModelClasses, body \in ClassBodies, s \in Schemas :
            CreateClass(name, base, m, body, s)
    \/ \E c \in 0..Len(classes), r \in Routers :
            RegisterRoutes(c, r)

Next == NextViews \/ NextViewSets

Spec == Init /\ [][Next]_vars
SpecViews == Init /\ [][NextViews]_vars
SpecViewSets == Init /\ [][NextViewSets]_vars

\* ------------------------------------------------------------ properties
IsConstruction == last.op \in {"RetrieveModelView", "DeleteModelView"}

VerbOfKind(kind) == IF kind = "Retrieve" THEN "GET" ELSE "DELETE"

\* the entries a register_routes call should add for class c: one per class
\* attribute holding a view
ExpectedInvocations(c) ==
    [i \in 1..Len(ViewAttrsOf(c)) |->
        [view |-> LookupAttr(classes, c, ViewAttrsOf(c)[i]).ref,
         model |-> LookupModelClass(classes, c)]]

\* C1: every ModelViewSet subclass that exists has a model_class that is a
\* subclass of Model, and a class statement whose model_class is absent or
\* invalid raised ValueError and created nothing.
C1_SubclassesHaveValidModelClass ==
    \A c \in 1..Len(classes) :
        LookupModelClass(classes, c) \in ModelSubclasses

\* C2: one register_route call makes exactly one call on the router it was
\* given, on the verb method of the view's kind (GET for Retrieve, DELETE for
\* Delete), and none on any other router.
C2_OneCallOnMatchingVerb ==
    last.op = "register_route" =>
        LET r == last.router
            n == Len(last.pre[r])
        IN  /\ last.err = NoError
            /\ Len(routes[r]) = n + 1
            /\ SubSeq(routes[r], 1, n) = last.pre[r]
            /\ routes[r][n + 1].verb = VerbOfKind(views[last.view].kind)
            /\ routes[r][n + 1].applied
            /\ \A o \in Routers \ {r} : routes[o] = last.pre[o]

C2_Witness ==
    /\ last.op = "register_route"
    /\ views[last.view].kind = "Retrieve"
    /\ Len(routes[last.router]) = 2

\* C3: the router_kwargs given to a view constructor are kept by the view
\* and arrive, key by key with the given value, in the router call that
\* register_route makes.
C3_RouterKwargsPassedVerbatim ==
    /\ (IsConstruction /\ last.router_kwargs # <<>>) =>
          /\ last.err = NoError
          /\ views[last.view].router_kwargs = last.router_kwargs[1]
    /\ last.op = "register_route" =>
          views[last.view].router_kwargs
              \subseteq routes[last.router][Len(routes[last.router])].kwargs

\* C4: one register_routes call invokes register_route exactly once per
\* class attribute (own or inherited) holding a view, with the class's
\* model_class, and a class without view attributes leaves the router as is.
C4_OncePerViewAttribute ==
    last.op = "register_routes" =>
        /\ last.invoked = ExpectedInvocations(last.cls)
        /\ ViewAttrsOf(last.cls) = <<>> => routes = last.pre

\* C5: a register_routes step adds to the router it was given exactly the
\* entries the class yields on a fresh router, whatever that router held and
\* whichever router it is; it leaves every other router's table, every view
\* and every class (its model_class included) unchanged.
C5_IndependentRouteSets ==
    [][last'.op = "register_routes" =>
          LET c == last'.cls
              r == last'.router
          IN  /\ routes'[r] = routes[r] \o register_routes(c, <<>>).log
              /\ \A o \in Routers \ {r} : routes'[o] = routes[o]
              /\ views' = views
              /\ classes' = classes]_vars

C5_Witness ==
    /\ last.op = "register_routes"
    /\ routes["r1"] # <<>>
    /\ routes["r1"][1].applied
    /\ routes["r2"] = routes["r1"]
    /\ routes["r1"] = register_routes(last.cls, <<>>).log

\* C6: get_queryset returns the model's default queryset, calling no
\* accessor, when the view has no accessor; otherwise it returns what the
\* accessor returns for the identifier, calling it once with that identifier
\* and not touching the model's manager.
C6_GetQuerysetDelegation ==
    last.op = "get_queryset" =>
        LET getter == views[last.view].queryset_getter
        IN  IF getter = None
            THEN /\ last.result = DefaultQuerySet(last.model, last.rows)
                 /\ last.accessor_calls = <<>>
                 /\ last.manager_calls = <<last.model>>
            ELSE /\ last.result = AccessorQuerySet(getter, last.id, last.rows)
                 /\ last.accessor_calls = <<last.id>>
                 /\ last.manager_calls = <<>>

C6_Witness ==
    /\ last.op = "get_queryset"
    /\ views[last.view].queryset_getter # None
    /\ last.id # <<>>
    /\ last.rows # {}

\* C7: the function a router receives is the handler with the view's
\* decorators applied in list order (the first innermost), never the bare
\* handler of a view that has decorators; with no decorators it is the bare
\* handler, and a request enters the wrappers outermost first.
C7_RegisteredFunctionIsDecorated ==
    /\ \A r \in Routers : \A i \in 1..Len(routes[r]) :
          routes[r][i].applied =>
              LET func == routes[r][i].func
                  decorators == views[func.core.view].decorators
              IN  /\ Len(func.layers) = Len(decorators)
                  /\ \A k \in 1..Len(decorators) : func.layers[k] = decorators[k]
                  /\ decorators = <<>> =>
                        func = BareHandler(func.core.name, func.core.view,
                                           func.core.model)
    /\ last.op = "request" =>
          LET core == routes[last.router][last.index].func.core
              decorators == views[core.view].decorators
          IN  /\ Len(last.entered) = Len(decorators)
              /\ \A k \in 1..Len(decorators) :
                    last.entered[k] = decorators[Len(decorators) + 1 - k]

C7_Witness ==
    \E r \in Routers : \E i \in 1..Len(routes[r]) :
        /\ routes[r][i].applied
        /\ routes[r][i].verb = "GET"
        /\ routes[r][i].func.layers = <<"d1", "d2">>

\* C8: a second register_routes call with the same class on the same router
\* raises nothing and leaves the router with two equal entries per view.
C8_SecondCallDuplicates ==
    (last.op = "register_routes" /\ last.repeat) =>
        LET log == routes[last.router]
            n == Len(ViewAttrsOf(last.cls))
        IN  /\ last.err = NoError
            /\ Len(log) = 2 * n
            /\ \A i \in 1..n : log[i] = log[n + i]

\* C9: a request whose identifier is not in the resolved queryset raises
\* DoesNotExist out of the handler and returns nothing; one whose identifier
\* is in it returns status 200 with that record.
C9_NotFoundPropagates ==
    last.op = "request" =>
        LET core == routes[last.router][last.index].func.core
            getter == views[core.view].queryset_getter
            resolved == IF getter = None THEN last.rows
                        ELSE last.rows \ HiddenPks
        IN  IF last.id \in resolved
            THEN /\ last.err = NoError
                 /\ Len(last.result) = 1
                 /\ last.result[1].status = 200
                 /\ last.result[1].instance.pk = last.id
            ELSE /\ last.err = "DoesNotExist"
                 /\ last.result = <<>>

C9_Witness ==
    /\ last.op = "request"
    /\ last.err = "DoesNotExist"
    /\ last.rows # {}

\* C10: every ModelViewSet subclass was validated exactly once, when it was
\* created, so every register_route call made by register_routes is for a
\* class whose validation succeeded, with the class's current model_class.
C10_ValidatedOnceBeforeRegistration ==
    /\ \A c \in 1..Len(classes) : classes[c].validations = 1
    /\ (last.op = "register_routes" /\ last.invoked # <<>>) =>
          /\ classes[last.cls].validations = 1
          /\ \A i \in 1..Len(last.invoked) :
                last.invoked[i].model = LookupModelClass(classes, last.cls)
====
